---------------------------- MODULE Spec2Model ----------------------------
(***************************************************************************)
(* Model of caledar_get_from_consultant.py: extraction of the non-working  *)
(* days of a year from free Russian text (extract_nonworking_dates) and    *)
(* the construction of the day-of-year map (build_year_map).               *)
(*                                                                         *)
(* A text is a sequence of Unicode code points (Python str).  The regular  *)
(* expressions of the source are modelled on code points, with the classes *)
(* \d, \s, \w, [а-я] and the flags IGNORECASE and DOTALL as Python's re    *)
(* module defines them on the characters the model's texts use.            *)
(***************************************************************************)
EXTENDS Integers, Sequences, FiniteSets, TLC

VARIABLES
    text,        \* the document text handed to extract_nonworking_dates
    year_hint,   \* the year_hint argument (None, an int or a str)
    today,       \* date.today().year, the environment's current year
    pc,          \* position of the pipeline
    year,        \* local `year` of extract_nonworking_dates / ParseResult.year
    nonworking,  \* the accumulating set `nonworking` / ParseResult.nonworking_dates
    notes,       \* the list `notes` / ParseResult.notes
    marks,       \* history: for each note, the start offset of the match that wrote it
    day_map,     \* the dict returned by build_year_map
    exc          \* the exception that left the pipeline, or "none"

vars == <<text, year_hint, today, pc, year, nonworking, notes, marks, day_map, exc>>

---------------------------------------------------------------------------
(* Python values that `year` and `year_hint` can hold.                     *)

PyNone == [t |-> "none", v |-> 0]
PyInt(n) == [t |-> "int", v |-> n]
\* str(n): the decimal text of n; only its type and its digits matter here
PyStr(n) == [t |-> "str", v |-> n]

\* Python truthiness of a hint: None and 0 are falsy, a non-empty str is truthy
Truthy(x) == (x.t = "int" /\ x.v # 0) \/ x.t = "str"

---------------------------------------------------------------------------
(* datetime.date                                                           *)

Date(y, m, d) == [year |-> y, month |-> m, day |-> d]

IsLeap(y) == y % 4 = 0 /\ (y % 100 # 0 \/ y % 400 = 0)

DaysInMonth(y, m) ==
    CASE m \in {1, 3, 5, 7, 8, 10, 12} -> 31
      [] m \in {4, 6, 9, 11} -> 30
      [] OTHER -> IF IsLeap(y) THEN 29 ELSE 28

\* date(y, m, d) raises ValueError unless this holds
ValidYMD(y, m, d) ==
    /\ y \in 1..9999            \* MINYEAR..MAXYEAR
    /\ m \in 1..12
    /\ d \in 1..DaysInMonth(y, m)

\* days of the year before the first day of month m (index 13: the whole year)
DaysBeforeMonthTable ==
    [leap \in BOOLEAN |->
        [m \in 1..13 |->
            CASE m = 1 -> 0 [] m = 2 -> 31
              [] OTHER -> (IF leap THEN 1 ELSE 0) +
                          (CASE m = 3 -> 59 [] m = 4 -> 90 [] m = 5 -> 120 [] m = 6 -> 151
                             [] m = 7 -> 181 [] m = 8 -> 212 [] m = 9 -> 243
                             [] m = 10 -> 273 [] m = 11 -> 304 [] m = 12 -> 334
                             [] OTHER -> 365)]]

DaysBeforeMonth(y, m) == DaysBeforeMonthTable[IsLeap(y)][m]

DaysBeforeYear(y) ==
    ((y - 1) * 365) + ((y - 1) \div 4) - ((y - 1) \div 100) + ((y - 1) \div 400)

\* date.toordinal(): 1 for 0001-01-01
Ordinal(dt) == DaysBeforeYear(dt.year) + DaysBeforeMonth(dt.year, dt.month) + dt.day

\* date.weekday(): Monday is 0, Sunday is 6
Weekday(dt) == (Ordinal(dt) + 6) % 7

\* date.fromordinal(n), by the 400-, 100-, 4- and 1-year cycles
FromOrdinal(n) ==
    LET n0   == n - 1
        n400 == n0 \div 146097
        r400 == n0 % 146097
        n100 == r400 \div 36524
        r100 == r400 % 36524
        n4   == r100 \div 1461
        r4   == r100 % 1461
        n1   == r4 \div 365
        r1   == r4 % 365
        y    == (n400 * 400) + 1 + (n100 * 100) + (n4 * 4) + n1
        m0   == (r1 + 50) \div 32
        m    == IF DaysBeforeMonth(y, m0) > r1 THEN m0 - 1 ELSE m0
    IN  IF n1 = 4 \/ n100 = 4
        THEN Date(y - 1, 12, 31)
        ELSE Date(y, m, (r1 - DaysBeforeMonth(y, m)) + 1)

\* d + timedelta(days = k)
AddDays(dt, k) == FromOrdinal(Ordinal(dt) + k)

WORKING == "rabochiy"
NON_WORKING == "nerabochiy"

---------------------------------------------------------------------------
(* Characters: Unicode code points, and the classes of Python's re.        *)

\* \d on the digits 0-9
IsDigit(c) == c \in 48..57
\* \s: the characters str.isspace() accepts below U+0100
IsSpace(c) == c \in {9, 10, 11, 12, 13, 28, 29, 30, 31, 32, 133, 160}
\* [а-я] under IGNORECASE: U+0430..U+044F and their capitals U+0410..U+042F
IsCyr(c) == c \in 1072..1103 \/ c \in 1040..1071
\* \w: letters (Latin, Cyrillic U+0400..U+0481 with ё and Ё), digits and "_"
IsWord(c) ==
    \/ IsDigit(c)
    \/ c \in 65..90 \/ c \in 97..122 \/ c = 95
    \/ c \in 1024..1153

\* str.lower() of one character
LowerChar(c) ==
    IF c \in 65..90 \/ c \in 1040..1071 THEN c + 32
    ELSE IF c \in 1024..1039 THEN c + 80
    ELSE c

Lower(s) == [i \in 1..Len(s) |-> LowerChar(s[i])]

\* a literal pattern character against a text character under IGNORECASE
SameChar(p, c) == LowerChar(p) = LowerChar(c)

\* text[a:b] for 0 <= a <= b <= len(text) (Python offsets, from 0)
Slice(t, a, b) == [i \in 1..(b - a) |-> t[a + i]]

\* the literal `lit` matches the text at offset a under IGNORECASE
LitAt(t, a, lit) ==
    /\ a + Len(lit) <= Len(t)
    /\ \A i \in 1..Len(lit) : SameChar(lit[i], t[a + i])

\* the characters of \s, [а-я], \w and [\w\s]
SpaceChars == {c \in 0..255 : IsSpace(c)}
CyrChars == {c \in 1040..1103 : IsCyr(c)}
WordChars == {c \in 0..1153 : IsWord(c)}
WordOrSpaceChars == WordChars \cup SpaceChars

\* the offset after the longest run from offset a of characters of the class
RunEnd(t, a, class) ==
    CHOOSE b \in a..Len(t) :
        /\ b = Len(t) \/ t[b + 1] \notin class
        /\ \A c \in a..(b - 1) : t[c + 1] \in class

SpaceEnd(t, a) == RunEnd(t, a, SpaceChars)
CyrEnd(t, a) == RunEnd(t, a, CyrChars)
WordEnd(t, a) == RunEnd(t, a, WordChars)
WordSpaceEnd(t, a) == RunEnd(t, a, WordOrSpaceChars)

\* \b at offset a: exactly one of the characters around it is a word character
WordBoundary(t, a) ==
    (a > 0 /\ IsWord(t[a])) # (a < Len(t) /\ IsWord(t[a + 1]))

\* int() of a run of digits
RECURSIVE IntOf(_)
IntOf(s) == IF Len(s) = 0 THEN 0 ELSE (IntOf(SubSeq(s, 1, Len(s) - 1)) * 10) + (s[Len(s)] - 48)

---------------------------------------------------------------------------
(* MONTHS_RU and _normalize_month                                          *)

m_yanvarya == <<1103, 1085, 1074, 1072, 1088, 1103>>   \* января
m_fevralya == <<1092, 1077, 1074, 1088, 1072, 1083, 1103>>   \* февраля
m_marta == <<1084, 1072, 1088, 1090, 1072>>   \* марта
m_aprelya == <<1072, 1087, 1088, 1077, 1083, 1103>>   \* апреля
m_maya == <<1084, 1072, 1103>>   \* мая
m_iyunya == <<1080, 1102, 1085, 1103>>   \* июня
m_iyulya == <<1080, 1102, 1083, 1103>>   \* июля
m_avgusta == <<1072, 1074, 1075, 1091, 1089, 1090, 1072>>   \* августа
m_sentyabrya == <<1089, 1077, 1085, 1090, 1103, 1073, 1088, 1103>>   \* сентября
m_oktyabrya == <<1086, 1082, 1090, 1103, 1073, 1088, 1103>>   \* октября
m_noyabrya == <<1085, 1086, 1103, 1073, 1088, 1103>>   \* ноября
m_dekabrya == <<1076, 1077, 1082, 1072, 1073, 1088, 1103>>   \* декабря

\* MONTHS_RU.get(token): the month's number, or 0 for None
MONTHS_RU(token) ==
    CASE token = m_yanvarya -> 1
      [] token = m_fevralya -> 2
      [] token = m_marta -> 3
      [] token = m_aprelya -> 4
      [] token = m_maya -> 5
      [] token = m_iyunya -> 6
      [] token = m_iyulya -> 7
      [] token = m_avgusta -> 8
      [] token = m_sentyabrya -> 9
      [] token = m_oktyabrya -> 10
      [] token = m_noyabrya -> 11
      [] token = m_dekabrya -> 12
      [] OTHER -> 0

\* the characters of strip(" .,:;")
StripChars == {32, 46, 44, 58, 59}

RECURSIVE LStrip(_)
LStrip(s) == IF Len(s) > 0 /\ s[1] \in StripChars THEN LStrip(Tail(s)) ELSE s
RECURSIVE RStrip(_)
RStrip(s) ==
    IF Len(s) > 0 /\ s[Len(s)] \in StripChars THEN RStrip(SubSeq(s, 1, Len(s) - 1)) ELSE s

\* _normalize_month: 0 stands for None
normalize_month(token) == MONTHS_RU(RStrip(LStrip(Lower(token))))

---------------------------------------------------------------------------
(* _safe_date                                                              *)

\* None, as the result of _safe_date
NoDate == Date(0, 0, 0)

\* date(year, month, day) raises TypeError, which _safe_date does not catch, when
\* year is not an int
SafeDateRaises(y) == y.t # "int"

\* _safe_date for an int year: the date, or None on ValueError
safe_date(y, m, d) == IF ValidYMD(y, m, d) THEN Date(y, m, d) ELSE NoDate

---------------------------------------------------------------------------
(* YEAR_PATTERNS and _detect_year                                          *)

w_goda == <<1075, 1086, 1076, 1072>>       \* года
w_god == <<1075, 1086, 1076>>              \* год
w_za == <<1079, 1072>>                     \* за
w_kalendar == <<1082, 1072, 1083, 1077, 1085, 1076, 1072, 1088>>   \* календар
KalendarEndings == {1100, 1103, 1077}   \* [ьяе]

\* 20\d{2} at offset a
YearAt(t, a) ==
    /\ a + 4 <= Len(t)
    /\ t[a + 1] = 50 /\ t[a + 2] = 48 /\ IsDigit(t[a + 3]) /\ IsDigit(t[a + 4])

\* No match, as the result of a search
NoMatch == -1

Min(S) == CHOOSE x \in S : \A z \in S : x <= z
Max(S) == CHOOSE x \in S : \A z \in S : x >= z

\* (?P<year>20\d{2})\s*года matched at offset a
YearPattern1At(t, a) == YearAt(t, a) /\ LitAt(t, SpaceEnd(t, a + 4), w_goda)

\* за\s+(?P<year>20\d{2})\s*год matched at offset a
YearPattern2At(t, a) ==
    /\ LitAt(t, a, w_za)
    /\ SpaceEnd(t, a + 2) > a + 2
    /\ YearAt(t, SpaceEnd(t, a + 2))
    /\ LitAt(t, SpaceEnd(t, SpaceEnd(t, a + 2) + 4), w_god)

\* календар[ьяе] matched at offset a
YearPattern3Head(t, a) ==
    /\ LitAt(t, a, w_kalendar)
    /\ a + 9 <= Len(t)
    /\ LowerChar(t[a + 9]) \in KalendarEndings

\* the offsets at which (?P<year>20\d{2}) can follow календар[ьяе][\w\s]+ matched
\* at offset a: [\w\s]+ takes at least one character and at most its whole run
YearPattern3Years(t, a) ==
    {q \in (a + 10)..WordSpaceEnd(t, a + 9) : YearAt(t, q)}

\* re.search(pat, text, flags=re.IGNORECASE) and int(m.group("year")): the leftmost
\* match; the greedy [\w\s]+ of the third pattern gives up as little as it can, so
\* the year it captures is the last one its match can end with
YearSearch(pat, t) ==
    LET offs == 0..Len(t)
        at1 == {a \in offs : YearPattern1At(t, a)}
        at2 == {a \in offs : YearPattern2At(t, a)}
        at3 == {a \in offs : YearPattern3Head(t, a) /\ YearPattern3Years(t, a) # {}}
    IN  CASE pat = 1 ->
               IF at1 = {} THEN NoMatch ELSE IntOf(Slice(t, Min(at1), Min(at1) + 4))
          [] pat = 2 ->
               IF at2 = {} THEN NoMatch
               ELSE LET y == SpaceEnd(t, Min(at2) + 2) IN IntOf(Slice(t, y, y + 4))
          [] OTHER ->
               IF at3 = {} THEN NoMatch
               ELSE LET q == Max(YearPattern3Years(t, Min(at3)))
                    IN  IntOf(Slice(t, q, q + 4))

YEAR_PATTERNS == <<1, 2, 3>>

\* the for loop of lines 61-64 from pattern number i, then lines 65-68
RECURSIVE DetectYearFrom(_, _, _, _)
DetectYearFrom(i, t, fallback, now) ==
    IF i <= Len(YEAR_PATTERNS)
    THEN LET m == YearSearch(YEAR_PATTERNS[i], t)
         IN  IF m # NoMatch THEN PyInt(m)
             ELSE DetectYearFrom(i + 1, t, fallback, now)
    ELSE IF Truthy(fallback) THEN fallback
    ELSE PyInt(now)

\* lines 60-68 with the hint asked before the text
DetectYearMutHintFirst(t, fallback, now) ==
    IF Truthy(fallback) THEN fallback ELSE DetectYearFrom(1, t, PyNone, now)

\* lines 60-68
detect_year(t, fallback, now) == DetectYearFrom(1, t, fallback, now)

---------------------------------------------------------------------------
(* The four patterns.  A match is a record with `ok`; when ok, `start` and *)
(* `end` are m.start() and m.end() and the other fields are its groups.    *)

w_s == <<1089>>      \* с
w_po == <<1087, 1086>>     \* по
w_i == <<1080>>      \* и
w_na == <<1085, 1072>>     \* на
w_perenos == <<1087, 1077, 1088, 1077, 1085, 1086, 1089>>        \* перенос
w_perenesti == <<1087, 1077, 1088, 1077, 1085, 1077, 1089, 1090, 1080>>   \* перенести
w_perenosyat == <<1087, 1077, 1088, 1077, 1085, 1086, 1089, 1103, 1090>>   \* переносят

\* the number of characters a greedy \d{1,2} takes at offset a (0: no match).  In
\* all four patterns the token after it cannot start with a digit, so taking one
\* digit of two never leads to a match
DigitsAt(t, a) ==
    IF a < Len(t) /\ IsDigit(t[a + 1])
    THEN IF a + 1 < Len(t) /\ IsDigit(t[a + 2]) THEN 2 ELSE 1
    ELSE 0

\* \s+(?P<month>[а-я]+)\b at offset a: both runs are taken whole (a shorter run
\* of letters ends between two word characters, where \b fails)
MonthTailOk(t, a) ==
    /\ SpaceEnd(t, a) > a
    /\ CyrEnd(t, SpaceEnd(t, a)) > SpaceEnd(t, a)
    /\ WordBoundary(t, CyrEnd(t, SpaceEnd(t, a)))

Failed == [ok |-> FALSE]

\* RANGE_RE at offset a
RangeMatchAt(t, a) ==
    LET b  == SpaceEnd(t, a + 1)
        n1 == DigitsAt(t, b)
        c  == SpaceEnd(t, b + n1)
        d  == SpaceEnd(t, c + 2)
        n2 == DigitsAt(t, d)
        e  == SpaceEnd(t, d + n2)
        f  == CyrEnd(t, e)
    IN  IF /\ LitAt(t, a, w_s)
           /\ b > a + 1 /\ n1 >= 1
           /\ c > b + n1 /\ LitAt(t, c, w_po)
           /\ d > c + 2 /\ n2 >= 1
           /\ MonthTailOk(t, d + n2)
        THEN [ok |-> TRUE, start |-> a, end |-> f,
              d1 |-> Slice(t, b, b + n1), d2 |-> Slice(t, d, d + n2),
              month |-> Slice(t, e, f)]
        ELSE Failed

\* the end of (?:\d{1,2}\s*,\s*)* from offset a (greedy; giving an item back
\* leaves a comma where the pattern needs a letter or "и")
RECURSIVE ListItemsEnd(_, _)
ListItemsEnd(t, a) ==
    LET n == DigitsAt(t, a)
        q == SpaceEnd(t, a + n)
    IN  IF n >= 1 /\ q < Len(t) /\ t[q + 1] = 44
        THEN ListItemsEnd(t, SpaceEnd(t, q + 1))
        ELSE a

\* LISTED_DAYS_RE at offset a: the optional (?:\s*и\s*\d{1,2})? is tried first
\* with its group, then without
ListMatchAt(t, a) ==
    LET p  == ListItemsEnd(t, a)
        n  == DigitsAt(t, p)
        r  == p + n
        g  == SpaceEnd(t, r)
        h  == SpaceEnd(t, g + 1)
        n3 == DigitsAt(t, h)
        r2 == h + n3
        withAnd == n >= 1 /\ LitAt(t, g, w_i) /\ n3 >= 1 /\ MonthTailOk(t, r2)
        daysEnd == IF withAnd THEN r2 ELSE r
    IN  IF n >= 1 /\ (withAnd \/ MonthTailOk(t, r))
        THEN [ok |-> TRUE, start |-> a, end |-> CyrEnd(t, SpaceEnd(t, daysEnd)),
              days |-> Slice(t, a, daysEnd),
              month |-> Slice(t, SpaceEnd(t, daysEnd), CyrEnd(t, SpaceEnd(t, daysEnd)))]
        ELSE Failed

\* SINGLE_DAY_RE at offset a
SingleMatchAt(t, a) ==
    LET n == DigitsAt(t, a)
        e == SpaceEnd(t, a + n)
    IN  IF /\ (a = 0 \/ ~ IsDigit(t[a]))
           /\ n >= 1
           /\ MonthTailOk(t, a + n)
        THEN [ok |-> TRUE, start |-> a, end |-> CyrEnd(t, e),
              day |-> Slice(t, a, a + n), month |-> Slice(t, e, CyrEnd(t, e))]
        ELSE Failed

\* на\s+(?P<to_day>\d{1,2})\s+(?P<to_month>[а-я]+) at offset a; nothing follows
\* the month, which is its whole run of letters
TransferTailAt(t, a) ==
    LET b == SpaceEnd(t, a + 2)
        n == DigitsAt(t, b)
        c == SpaceEnd(t, b + n)
        e == CyrEnd(t, c)
    IN  IF LitAt(t, a, w_na) /\ b > a + 2 /\ n >= 1 /\ c > b + n /\ e > c
        THEN [ok |-> TRUE, start |-> a, end |-> e,
              from_day |-> <<>>, from_month |-> <<>>,
              to_day |-> Slice(t, b, b + n), to_month |-> Slice(t, c, e)]
        ELSE Failed

\* of the attempts f[lo], ..., f[hi] the first that is a match, and the last
PickFirst(f) ==
    LET good == {g \in DOMAIN f : f[g].ok}
    IN  IF good = {} THEN Failed ELSE f[Min(good)]

PickLast(f) ==
    LET good == {g \in DOMAIN f : f[g].ok}
    IN  IF good = {} THEN Failed ELSE f[Max(good)]

LeastOf(x, z) == IF x <= z THEN x ELSE z

WithFromMonth(r, from_month) == IF r.ok THEN [r EXCEPT !.from_month = from_month] ELSE r
WithFromDay(r, from_day) == IF r.ok THEN [r EXCEPT !.from_day = from_day] ELSE r
WithStart(r, start) == IF r.ok THEN [r EXCEPT !.start = start] ELSE r

\* .{0,40}? then the tail, from offset a: the lazy gap grows from 0
TransferGap2(t, a) ==
    PickFirst([g \in 0..LeastOf(40, Len(t) - a) |-> TransferTailAt(t, a + g)])

\* (?P<from_month>[а-я]+) from offset a, greedy: the whole run of letters, then
\* one letter fewer at a time
TransferFromMonth(t, a) ==
    PickLast([k \in 1..(CyrEnd(t, a) - a) |->
                 WithFromMonth(TransferGap2(t, a + k), Slice(t, a, a + k))])

\* (?P<from_day>\d{1,2})\s+(?P<from_month>[а-я]+) and the rest, at offset a
TransferFromAt(t, a) ==
    IF /\ DigitsAt(t, a) >= 1
       /\ a + DigitsAt(t, a) < Len(t)
       /\ IsSpace(t[a + DigitsAt(t, a) + 1])
    THEN WithFromDay(TransferFromMonth(t, SpaceEnd(t, a + DigitsAt(t, a))),
                     Slice(t, a, a + DigitsAt(t, a)))
    ELSE Failed

\* .{0,80}? then the rest, from offset a: the lazy gap grows from 0 (DOTALL: any
\* character)
TransferGap1(t, a) ==
    PickFirst([g \in 0..LeastOf(80, Len(t) - a) |-> TransferFromAt(t, a + g)])

\* the greedy \w* after a stem that ends at offset a: its whole run, then one
\* character fewer at a time
TransferStemTail(t, a) ==
    PickLast([w \in 0..(WordEnd(t, a) - a) |-> TransferGap1(t, a + w)])

\* TRANSFER_RE at offset a: the alternatives of the first group in their order
\* (the last two are the same stem)
TransferStems == <<w_perenos, w_perenesti, w_perenosyat, w_perenosyat>>

TransferMatchAt(t, a) ==
    WithStart(PickFirst([i \in 1..Len(TransferStems) |->
                            IF LitAt(t, a, TransferStems[i])
                            THEN TransferStemTail(t, a + Len(TransferStems[i]))
                            ELSE Failed]), a)

---------------------------------------------------------------------------
(* finditer: the matches of a pattern from left to right, each search      *)
(* starting where the previous match ended.                                *)

RANGE_RE == "RANGE_RE"
LISTED_DAYS_RE == "LISTED_DAYS_RE"
SINGLE_DAY_RE == "SINGLE_DAY_RE"
TRANSFER_RE == "TRANSFER_RE"

MatchAt(re, t, a) ==
    CASE re = RANGE_RE -> RangeMatchAt(t, a)
      [] re = LISTED_DAYS_RE -> ListMatchAt(t, a)
      [] re = SINGLE_DAY_RE -> SingleMatchAt(t, a)
      [] OTHER -> TransferMatchAt(t, a)

\* finditer from offset a, given f[b], the attempt to match at each offset b: the
\* leftmost match at or after a, then on from its end
RECURSIVE FindIterFrom(_, _)
FindIterFrom(f, a) ==
    LET rest == {b \in DOMAIN f : b >= a /\ f[b].ok}
    IN  IF rest = {} THEN <<>>
        ELSE <<f[Min(rest)]>> \o FindIterFrom(f, f[Min(rest)].end)

\* list(re.finditer(text))
finditer(re, t) == FindIterFrom([a \in 0..(Len(t) - 1) |-> MatchAt(re, t, a)], 0)

---------------------------------------------------------------------------
(* Strings of the list parser and of the notes.                            *)

\* str(n) for n >= 0
RECURSIVE Str(_)
Str(n) == IF n < 10 THEN <<48 + n>> ELSE Str(n \div 10) \o <<48 + (n % 10)>>

\* s.replace(old, new)
RECURSIVE Replace(_, _, _)
Replace(s, old, new) ==
    IF Len(s) < Len(old) THEN s
    ELSE IF SubSeq(s, 1, Len(old)) = old
         THEN new \o Replace(SubSeq(s, Len(old) + 1, Len(s)), old, new)
    ELSE <<s[1]>> \o Replace(Tail(s), old, new)

\* s.split(sep) for a one-character sep
RECURSIVE Split(_, _)
Split(s, sep) ==
    IF \E i \in 1..Len(s) : s[i] = sep
    THEN LET i == Min({j \in 1..Len(s) : s[j] = sep})
         IN  <<SubSeq(s, 1, i - 1)>> \o Split(SubSeq(s, i + 1, Len(s)), sep)
    ELSE <<s>>

\* s.strip()
RECURSIVE StripSpace(_)
StripSpace(s) ==
    IF Len(s) > 0 /\ IsSpace(s[1]) THEN StripSpace(Tail(s))
    ELSE IF Len(s) > 0 /\ IsSpace(s[Len(s)]) THEN StripSpace(SubSeq(s, 1, Len(s) - 1))
    ELSE s

\* s.isdigit()
IsDigitStr(s) == Len(s) > 0 /\ \A i \in 1..Len(s) : IsDigit(s[i])

\* key in s
Contains(s, key) ==
    \E a \in 0..(Len(s) - Len(key)) : Slice(s, a, a + Len(key)) = key

\* the note prefixes, and a note: its prefix and the text after it
N_RANGE == "Diapazon"
N_LIST == "Perechen"
N_SINGLE == "Odinochnaya data"
N_TRANSFER == "Perenos na"

Note(kind, body) == [kind |-> kind, body |-> body]

SP == <<32>>

---------------------------------------------------------------------------
(* extract_nonworking_dates: the bodies of its four loops.  The loops      *)
(* share acc = [nw, notes, marks, exc]: the set `nonworking`, the list     *)
(* `notes`, the match offsets of the notes, and the exception raised.      *)

Acc(nw, ns, ms, e) == [nw |-> nw, notes |-> ns, marks |-> ms, exc |-> e]

Raise(acc, e) == [acc EXCEPT !.exc = e]

\* lines 87-96, without the swap of line 92
RangeBodyMutNoSwap(m, y, acc) ==
    LET month == normalize_month(m.month)
        d1 == IntOf(m.d1)
        d2 == IntOf(m.d2)
    IN  IF month = 0 THEN acc
        ELSE IF SafeDateRaises(y) THEN Raise(acc, "TypeError")
        ELSE Acc(acc.nw \cup ({safe_date(y.v, month, dday) : dday \in d1..d2} \ {NoDate}),
                 Append(acc.notes, Note(N_RANGE, Str(d1) \o <<45>> \o Str(d2) \o SP \o m.month)),
                 Append(acc.marks, m.start), acc.exc)

\* lines 87-96
RangeBody(m, y, acc) ==
    LET month == normalize_month(m.month)
        d1 == IntOf(m.d1)
        d2 == IntOf(m.d2)
        lo == IF d1 <= d2 THEN d1 ELSE d2
        hi == IF d1 <= d2 THEN d2 ELSE d1
    IN  IF month = 0 THEN acc
        ELSE IF SafeDateRaises(y) THEN Raise(acc, "TypeError")
        ELSE Acc(acc.nw \cup ({safe_date(y.v, month, dday) : dday \in lo..hi} \ {NoDate}),
                 Append(acc.notes, Note(N_RANGE, Str(d1) \o <<45>> \o Str(d2) \o SP \o m.month)),
                 Append(acc.marks, m.start), acc.exc)

w_and == <<32, 1080, 32>>   \* " и "

\* lines 108-113: the days of raw_days
RECURSIVE DaysOfTokens(_)
DaysOfTokens(tokens) ==
    IF Len(tokens) = 0 THEN <<>>
    ELSE LET token == StripSpace(tokens[1])
         IN  (IF IsDigitStr(token) THEN <<IntOf(token)>> ELSE <<>>)
             \o DaysOfTokens(Tail(tokens))

ParseDays(raw_days) == DaysOfTokens(Split(Replace(raw_days, w_and, <<44>>), 44))

\* lines 117-122 from day number i: r = [nw, added_any]
RECURSIVE ListAddDays(_, _, _, _, _)
ListAddDays(days, i, y, month, r) ==
    IF i > Len(days) THEN r
    ELSE LET dt == safe_date(y, month, days[i])
         IN  IF dt # NoDate /\ dt \notin r.nw
             THEN ListAddDays(days, i + 1, y, month,
                              [nw |-> r.nw \cup {dt}, added_any |-> TRUE])
             ELSE ListAddDays(days, i + 1, y, month, r)

\* lines 100-124, with the note put in front of the notes made so far
ListBodyMutPrepend(m, y, acc) ==
    LET month == normalize_month(m.month)
        raw_days == m.days
        days == ParseDays(raw_days)
        r == ListAddDays(days, 1, y.v, month, [nw |-> acc.nw, added_any |-> FALSE])
    IN  IF month = 0 THEN acc
        ELSE IF ~ (\E i \in 1..Len(raw_days) : IsDigit(raw_days[i])) THEN acc
        ELSE IF Len(days) = 0 THEN acc
        ELSE IF SafeDateRaises(y) THEN Raise(acc, "TypeError")
        ELSE IF r.added_any
             THEN Acc(r.nw, <<Note(N_LIST, raw_days \o SP \o m.month)>> \o acc.notes,
                      <<m.start>> \o acc.marks, acc.exc)
        ELSE Acc(r.nw, acc.notes, acc.marks, acc.exc)

\* lines 100-124
ListBody(m, y, acc) ==
    LET month == normalize_month(m.month)
        raw_days == m.days
        days == ParseDays(raw_days)
        r == ListAddDays(days, 1, y.v, month, [nw |-> acc.nw, added_any |-> FALSE])
    IN  IF month = 0 THEN acc
        ELSE IF ~ (\E i \in 1..Len(raw_days) : IsDigit(raw_days[i])) THEN acc
        ELSE IF Len(days) = 0 THEN acc
        ELSE IF SafeDateRaises(y) THEN Raise(acc, "TypeError")
        ELSE IF r.added_any
             THEN Acc(r.nw, Append(acc.notes, Note(N_LIST, raw_days \o SP \o m.month)),
                      Append(acc.marks, m.start), acc.exc)
        ELSE Acc(r.nw, acc.notes, acc.marks, acc.exc)

TriggerKeys == { <<1085, 1077, 1088, 1072, 1073, 1086, 1095>>,           \* нерабоч
                 <<1087, 1088, 1072, 1079, 1076, 1085, 1080, 1095>>,     \* празднич
                 <<1074, 1099, 1093, 1086, 1076, 1085>> }                \* выходн

WINDOW == 40

\* line 137: text[max(0, m.start()-40): m.end()+40].lower()
Window(t, m) ==
    Lower(Slice(t, IF m.start - WINDOW > 0 THEN m.start - WINDOW ELSE 0,
                   IF m.end + WINDOW < Len(t) THEN m.end + WINDOW ELSE Len(t)))

\* lines 129-140
SingleBody(t, m, y, acc) ==
    LET month == normalize_month(m.month)
        dday == IntOf(m.day)
        dt == safe_date(y.v, month, dday)
    IN  IF month = 0 THEN acc
        ELSE IF SafeDateRaises(y) THEN Raise(acc, "TypeError")
        ELSE IF dt # NoDate /\ dt \notin acc.nw
                /\ \E key \in TriggerKeys : Contains(Window(t, m), key)
             THEN Acc(acc.nw \cup {dt},
                      Append(acc.notes, Note(N_SINGLE, Str(dday) \o SP \o m.month)),
                      Append(acc.marks, m.start), acc.exc)
        ELSE acc

\* lines 144-152
TransferBody(m, y, acc) ==
    LET d_from == IntOf(m.from_day)
        d_to == IntOf(m.to_day)
        m_from == normalize_month(m.from_month)
        m_to == normalize_month(m.to_month)
        dt_to == safe_date(y.v, m_to, d_to)
    IN  IF m_to = 0 THEN acc
        ELSE IF SafeDateRaises(y) THEN Raise(acc, "TypeError")
        ELSE IF dt_to # NoDate
             THEN Acc(acc.nw \cup {dt_to},
                      Append(acc.notes, Note(N_TRANSFER, Str(d_to) \o SP \o m.to_month)),
                      Append(acc.marks, m.start), acc.exc)
        ELSE acc

LoopBody(re, t, m, y, acc) ==
    CASE re = RANGE_RE -> RangeBody(m, y, acc)
      [] re = LISTED_DAYS_RE -> ListBody(m, y, acc)
      [] re = SINGLE_DAY_RE -> SingleBody(t, m, y, acc)
      [] OTHER -> TransferBody(m, y, acc)

\* `for m in re.finditer(text)` from match number i; an exception ends the loop
RECURSIVE ForEachMatch(_, _, _, _, _, _)
ForEachMatch(re, t, ms, i, y, acc) ==
    IF i > Len(ms) \/ acc.exc # "none" THEN acc
    ELSE ForEachMatch(re, t, ms, i + 1, y, LoopBody(re, t, ms[i], y, acc))

ExtractLoop(re, t, y, acc) == ForEachMatch(re, t, finditer(re, t), 1, y, acc)

---------------------------------------------------------------------------
(* The pipeline of parse_calendar_from_consultant, one action per step of  *)
(* extract_nonworking_dates and one for build_year_map.                    *)

\* line 82
DetectYear ==
    /\ pc = "start"
    /\ year' = detect_year(text, year_hint, today)
    /\ pc' = "range"
    /\ UNCHANGED <<text, year_hint, today, nonworking, notes, marks, day_map, exc>>

\* one of the four for loops: it leads on to `next`, or its exception leaves
\* extract_nonworking_dates
RunLoop(re, next) ==
    LET acc == ExtractLoop(re, text, year, Acc(nonworking, notes, marks, exc))
    IN  /\ nonworking' = acc.nw
        /\ notes' = acc.notes
        /\ marks' = acc.marks
        /\ exc' = acc.exc
        /\ pc' = IF acc.exc = "none" THEN next ELSE "raised_in_extract"
        /\ UNCHANGED <<text, year_hint, today, year, day_map>>

\* lines 86-96
RangeLoop == pc = "range" /\ RunLoop(RANGE_RE, "list")

\* lines 99-124
ListLoop == pc = "list" /\ RunLoop(LISTED_DAYS_RE, "single")

\* lines 128-140
SingleLoop == pc = "single" /\ RunLoop(SINGLE_DAY_RE, "transfer")

\* lines 143-154: the last loop and the return of the ParseResult
TransferLoop == pc = "transfer" /\ RunLoop(TRANSFER_RE, "parsed")

---------------------------------------------------------------------------
(* build_year_map                                                          *)

\* the test of line 168
\* line 168 with the comparison `>= 6`
IsWeekendMutOnlySunday(d) == Weekday(d) >= 6

\* line 168
is_weekend(d) == Weekday(d) >= 5

\* line 169 without `or d in nonworking_set`
DayLabelMutIgnoreSet(d, nonworking_set) ==
    IF is_weekend(d) THEN NON_WORKING ELSE WORKING

\* the label of line 169
DayLabel(d, nonworking_set) ==
    IF is_weekend(d) \/ d \in nonworking_set THEN NON_WORKING ELSE WORKING

\* the loop of lines 166-171 with the condition `d <= end`
YearMapLoopMutInclusive(start, end, nonworking_set) ==
    [doy \in 1..(Ordinal(end) - Ordinal(start) + 1) |->
        DayLabel(AddDays(start, doy - 1), nonworking_set)]

\* the while loop of lines 166-171: it is entered with d = start and adds one day
\* per round, so round number doy (from 1) sees d = start + (doy - 1) days, and it
\* runs while d < end, that is for (end - start).days rounds
YearMapLoop(start, end, nonworking_set) ==
    [doy \in 1..(Ordinal(end) - Ordinal(start)) |->
        DayLabel(AddDays(start, doy - 1), nonworking_set)]

\* date(year, 1, 1) and date(year + 1, 1, 1) of lines 162-163: the exception they
\* raise, or "none"
YearMapRaises(y) ==
    IF y.t # "int" THEN "TypeError"
    ELSE IF ~ ValidYMD(y.v, 1, 1) \/ ~ ValidYMD(y.v + 1, 1, 1) THEN "ValueError"
    ELSE "none"

build_year_map(y, nw) ==
    YearMapLoop(Date(y, 1, 1), Date(y + 1, 1, 1), nw)

\* line 202 of parse_calendar_from_consultant
BuildYearMap ==
    /\ pc = "parsed"
    /\ IF YearMapRaises(year) # "none"
       THEN /\ pc' = "raised_in_build"
            /\ exc' = YearMapRaises(year)
            /\ day_map' = day_map
       ELSE /\ pc' = "done"
            /\ exc' = exc
            /\ day_map' = build_year_map(year.v, nonworking)
    /\ UNCHANGED <<text, year_hint, today, year, nonworking, notes, marks>>

---------------------------------------------------------------------------
(* The calendar builder on its own: any year, any exception set.           *)

CalYears == {1900, 2000, 2023, 2024, 2025, 2026, 2100}

CalDates ==
    { Date(2024, 2, 29), Date(2024, 1, 1), Date(2024, 12, 31), Date(2025, 1, 1),
      Date(2025, 1, 4), Date(2025, 3, 8), Date(2025, 12, 31), Date(2026, 1, 1) }

InitCal ==
    /\ text = <<>>
    /\ year_hint = PyNone
    /\ today = 2026
    /\ pc = "parsed"
    /\ year \in {PyInt(y) : y \in CalYears} \cup {PyStr(2026), PyInt(0), PyInt(9999)}
    /\ nonworking \in SUBSET CalDates
    /\ notes = <<>>
    /\ marks = <<>>
    /\ day_map = <<>>
    /\ exc = "none"

SpecCal == InitCal /\ [][BuildYearMap]_vars

---------------------------------------------------------------------------
(* The documents: what fetch_consultant_text can return.  Each family      *)
(* spells one construction with its days, months, spacing and case varied; *)
(* MixedTexts joins up to MaxPhrases sentences.                            *)

MonthNames ==
    << m_yanvarya, m_fevralya, m_marta, m_aprelya, m_maya, m_iyunya,
       m_iyulya, m_avgusta, m_sentyabrya, m_oktyabrya, m_noyabrya, m_dekabrya >>

w_dnya == <<1076, 1085, 1103>>   \* дня: a word after a number that is no month

\* the month's name for k in 1..12, and a word that is no month for k = 0
MonthWord(k) == IF k \in 1..12 THEN MonthNames[k] ELSE w_dnya

\* str.upper() on the letters of the phrases
Upper(s) == [i \in 1..Len(s) |-> IF s[i] \in 1072..1103 THEN s[i] - 32 ELSE s[i]]

Pad(n) == [i \in 1..n |-> 46]   \* n full stops
NBSP == <<160>>
Stop == <<46, 32>>               \* ". "

t_nonworking_day == <<32, 8212, 32, 1085, 1077, 1088, 1072, 1073, 1086, 1095, 1080, 1081, 32, 1076, 1077, 1085, 1100>>   \* " — нерабочий день"
t_nerabochiy == <<1085, 1077, 1088, 1072, 1073, 1086, 1095, 1080, 1081>>   \* нерабочий
t_nerabochie == <<32, 1085, 1077, 1088, 1072, 1073, 1086, 1095, 1080, 1077>>   \* " нерабочие"
t_vyhodnoy == <<1074, 1099, 1093, 1086, 1076, 1085, 1086, 1081>>   \* выходной
t_prazdnichnyy == <<1087, 1088, 1072, 1079, 1076, 1085, 1080, 1095, 1085, 1099, 1081>>   \* праздничный
t_vyhodnogo_s == <<32, 1074, 1099, 1093, 1086, 1076, 1085, 1086, 1075, 1086, 32, 1089, 32>>   \* " выходного с "
t_perenositsya == <<1087, 1077, 1088, 1077, 1085, 1086, 1089, 1080, 1090, 1089, 1103>>   \* переносится
t_kalendar_na == <<1082, 1072, 1083, 1077, 1085, 1076, 1072, 1088, 1100, 32, 1085, 1072, 32>>   \* "календарь на "
t_v == <<1074, 32>>   \* "в "
t_godu == <<32, 1075, 1086, 1076, 1091>>   \* " году"

\* "с D1 по D2 MONTH"; shape 2 is the same in capitals with wider spacing
RangePhrase(d1, d2, k, shape) ==
    IF shape = 1
    THEN w_s \o SP \o Str(d1) \o SP \o w_po \o SP \o Str(d2) \o SP \o MonthWord(k)
    ELSE Upper(w_s \o SP \o SP \o Str(d1) \o NBSP \o w_po \o <<10>> \o Str(d2)
               \o SP \o NBSP \o MonthWord(k))

RangeTexts ==
    { RangePhrase(d1, d2, k, shape) :
        d1 \in {0, 1, 8, 31}, d2 \in {0, 1, 8, 31}, k \in {0, 1, 2, 4}, shape \in {1, 2} }

\* "D1, D2 и D3 MONTH", the conjunction spelt as `conj`
ListPhrase(d1, d2, d3, conj, k) ==
    Str(d1) \o <<44, 32>> \o Str(d2) \o conj \o Str(d3) \o SP \o MonthWord(k)

Conjunctions == { w_and, w_i, SP \o w_i \o NBSP, SP \o Upper(w_i) \o SP }

ListTexts ==
    { before \o ListPhrase(1, d2, d3, conj, k) \o after :
        d2 \in {2, 31}, d3 \in {7, 9}, conj \in Conjunctions, k \in {0, 1, 2},
        before \in {<<>>, RangePhrase(1, 8, 1, 1) \o Stop},
        after \in {<<>>, t_nerabochie} }

\* "D MONTH"
SinglePhrase(d, k) == Str(d) \o SP \o MonthWord(k)

\* what stands before and after a date: nothing, a trigger word next to it, one
\* that just fits the window of 40 characters, one that just does not
ContextsBefore ==
    { <<>>, t_nerabochiy \o SP, t_nerabochiy \o Pad(31), t_nerabochiy \o Pad(32) }
ContextsAfter ==
    { <<>>, t_nonworking_day, Pad(34) \o t_vyhodnoy, Pad(35) \o t_prazdnichnyy }

\* a date on its own, and one that closes an enumeration written without spaces
SingleTexts ==
    { before \o lead \o SinglePhrase(d, k) \o after :
        before \in ContextsBefore, after \in ContextsAfter,
        lead \in {<<>>, Str(1) \o w_i}, d \in {8, 31}, k \in {3, 4} }

\* "STEM ... FD FMONTH на TD TMONTH"
TransferPhrase(stem, gap, fd, fk, td, tk) ==
    stem \o gap \o Str(fd) \o SP \o MonthWord(fk) \o SP \o w_na \o SP
         \o Str(td) \o SP \o MonthWord(tk)

TransferTexts ==
    { TransferPhrase(stem, gap, 5, fk, td, tk) :
        stem \in {w_perenos, w_perenesti, t_perenositsya},
        gap \in {t_vyhodnogo_s, Pad(81)},
        fk \in {0, 1}, td \in {8, 31}, tk \in {0, 1, 4} }

\* the year phrases of the three patterns and one that none of them matches
y_2025_goda == Str(2025) \o SP \o w_goda                    \* "2025 года"
y_za_2024_god == w_za \o SP \o Str(2024) \o SP \o w_god      \* "за 2024 год"
y_kalendar_2028 == t_kalendar_na \o Str(2028) \o SP \o w_god \* "календарь на 2028 год"
\* "КАЛЕНДАРЬ НА 2027 и 2023"
y_kalendar_2027_2023 == Upper(t_kalendar_na) \o Str(2027) \o SP \o w_i \o SP \o Str(2023)
y_v_2022_godu == t_v \o Str(2022) \o t_godu                  \* "в 2022 году"

YearPhrases ==
    {y_2025_goda, y_za_2024_god, y_kalendar_2028, y_kalendar_2027_2023, y_v_2022_godu}

\* one or two phrases about a year, then "29 февраля"
YearText1(y1) == y1 \o Stop \o SinglePhrase(29, 2)
YearText2(y1, y2) == y1 \o Stop \o y2 \o Stop \o SinglePhrase(29, 2)

YearTexts ==
    { YearText1(y) : y \in YearPhrases } \cup
    { YearText2(y1, y2) : y1 \in YearPhrases, y2 \in YearPhrases }

\* texts with notes of all four extractors
OrderTexts ==
    { RangePhrase(1, 3, k, 1) \o Stop \o RangePhrase(30, 28, 4, 2) \o Stop
        \o ListPhrase(1, 2, 7, conj, 1) \o t_nerabochie \o Stop
        \o Str(1) \o w_i \o SinglePhrase(9, 5) \o t_nonworking_day \o Stop
        \o TransferPhrase(w_perenos, t_vyhodnogo_s, 5, 1, 8, 3) :
        k \in {0, 1}, conj \in Conjunctions }

MaxPhrases == 2

y_2024_goda == Str(2024) \o SP \o w_goda   \* "2024 года"

KeyPhrases ==
    { RangePhrase(1, 8, 1, 1),
      ListPhrase(1, 2, 7, w_and, 1),
      SinglePhrase(8, 3),
      SinglePhrase(31, 4),
      SinglePhrase(9, 5) \o t_nonworking_day,
      TransferPhrase(w_perenos, t_vyhodnogo_s, 5, 1, 8, 1),
      y_2024_goda \o SP \o SinglePhrase(29, 2) }

RECURSIVE Sentences(_)
Sentences(n) ==
    IF n <= 1 THEN KeyPhrases
    ELSE { p \o Stop \o q : p \in Sentences(n - 1), q \in KeyPhrases }

MixedTexts == UNION { Sentences(n) : n \in 1..MaxPhrases }

Hints == {PyNone, PyInt(0), PyInt(2024), PyInt(2025), PyStr(2026)}

\* the texts, each with the hints it is parsed with
Inputs ==
    (RangeTexts \X {PyInt(2024), PyInt(2025)})
    \cup (ListTexts \X {PyInt(2025)})
    \cup (SingleTexts \X {PyInt(2025)})
    \cup (TransferTexts \X {PyInt(2025)})
    \cup (YearTexts \X Hints)
    \cup (OrderTexts \X {PyInt(2025)})
    \cup (MixedTexts \X Hints)

\* the call of line 206: the program's own hint is the str YEAR of line 15; the
\* signature of line 80 takes an int or None
Init ==
    /\ \E input \in Inputs : text = input[1] /\ year_hint = input[2]
    /\ today = 2026
    /\ pc = "start"
    /\ year = PyNone
    /\ nonworking = {}
    /\ notes = <<>>
    /\ marks = <<>>
    /\ day_map = <<>>
    /\ exc = "none"

Next ==
    \/ DetectYear
    \/ RangeLoop
    \/ ListLoop
    \/ SingleLoop
    \/ TransferLoop
    \/ BuildYearMap

Spec == Init /\ [][Next]_vars

---------------------------------------------------------------------------
(* What the properties below compare the program with: the Gregorian       *)
(* calendar written down independently of the date arithmetic above.       *)

GregorianLeap(y) == (y % 4 = 0 /\ y % 100 # 0) \/ y % 400 = 0

MonthLengths(y) ==
    <<31, IF GregorianLeap(y) THEN 29 ELSE 28, 31, 30, 31, 30, 31, 31, 30, 31, 30, 31>>

RECURSIVE DaysBefore(_, _)
DaysBefore(y, m) == IF m = 1 THEN 0 ELSE DaysBefore(y, m - 1) + MonthLengths(y)[m - 1]

\* the number of a day in its year, 1 for 1 January
DayOfYear(d) == DaysBefore(d.year, d.month) + d.day

\* Sakamoto's day of the week: 0 for Sunday .. 6 for Saturday
DayOfWeek(d) ==
    LET y == IF d.month < 3 THEN d.year - 1 ELSE d.year
    IN  (y + y \div 4 - y \div 100 + y \div 400
           + <<0, 3, 2, 5, 0, 3, 5, 1, 4, 6, 2, 4>>[d.month] + d.day) % 7

SaturdayOrSunday(d) == DayOfWeek(d) \in {0, 6}

DaysOfYear(y) == {Date(y, m, dd) : m \in 1..12, dd \in 1..31} \cap
                 {d \in [year : {y}, month : 1..12, day : 1..31] :
                     d.day <= MonthLengths(y)[d.month]}

---------------------------------------------------------------------------
(* C1: build_year_map(Y, E) labels a day of year Y NON_WORKING exactly     *)
(* when it is a Saturday, a Sunday or a member of E, and WORKING otherwise. *)
C1_WeekendOrException ==
    pc = "done" =>
        \A d \in DaysOfYear(year.v) :
            /\ DayOfYear(d) \in DOMAIN day_map
            /\ day_map[DayOfYear(d)] =
                   IF SaturdayOrSunday(d) \/ d \in nonworking THEN NON_WORKING ELSE WORKING

\* 2025: 1 January is a Wednesday in E, the 2nd a Thursday outside it, the 4th a
\* Saturday in E, the 5th a Sunday outside it
C1_Witness ==
    /\ pc = "done"
    /\ year = PyInt(2025)
    /\ nonworking = {Date(2025, 1, 1), Date(2025, 1, 4)}
    /\ day_map[1] = NON_WORKING
    /\ day_map[2] = WORKING
    /\ day_map[4] = NON_WORKING
    /\ day_map[5] = NON_WORKING

(* C2: the map of build_year_map(Y, E) has one entry per day of Y, 365 or  *)
(* 366 in a leap year, under the keys 1..N: key 1 is 1 January and key N   *)
(* is 31 December.                                                         *)
C2_OneEntryPerDay ==
    pc = "done" =>
        LET N == IF GregorianLeap(year.v) THEN 366 ELSE 365
        IN  /\ DOMAIN day_map = 1..N
            /\ Date(year.v, 1, 1) \in nonworking => day_map[1] = NON_WORKING
            /\ Date(year.v, 12, 31) \in nonworking => day_map[N] = NON_WORKING
            /\ {k \in DOMAIN day_map : day_map[k] = WORKING} \cap
               {DayOfYear(d) : d \in {e \in nonworking : e.year = year.v}} = {}

\* the leap year 2024 with its 29 February (a Thursday) and 31 December (a
\* Tuesday) in E
C2_Witness ==
    /\ pc = "done"
    /\ year = PyInt(2024)
    /\ {Date(2024, 2, 29), Date(2024, 12, 31)} \subseteq nonworking
    /\ DOMAIN day_map = 1..366
    /\ day_map[60] = NON_WORKING
    /\ day_map[366] = NON_WORKING
    /\ day_map[365] = WORKING

(* C5: _detect_year returns the year captured by the first pattern of     *)
(* YEAR_PATTERNS, in the order "20NN года", "за 20NN год", "календар[ьяе]  *)
(* ... 20NN", that matches anywhere in the text, whatever the hint; with   *)
(* no match it returns the hint if the hint is truthy, else the current    *)
(* year.                                                                   *)
PatternOf(phrase) ==
    CASE phrase = y_2025_goda -> 1
      [] phrase = y_za_2024_god -> 2
      [] phrase \in {y_kalendar_2028, y_kalendar_2027_2023} -> 3
      [] OTHER -> 4

CapturedIn(phrase) ==
    CASE phrase = y_2025_goda -> 2025
      [] phrase = y_za_2024_god -> 2024
      [] phrase = y_kalendar_2028 -> 2028
      [] OTHER -> 2023

HintOrCurrentYear == IF year_hint \in {PyNone, PyInt(0)} THEN PyInt(today) ELSE year_hint

\* the year expected of a text whose phrases about a year are y1 then y2
ExpectedYear(y1, y2) ==
    LET first == IF PatternOf(y1) <= PatternOf(y2) THEN y1 ELSE y2
    IN  IF PatternOf(first) = 4 THEN HintOrCurrentYear ELSE PyInt(CapturedIn(first))

C5_DetectYear ==
    pc # "start" =>
        IF text \in YearTexts
        THEN \A y1 \in YearPhrases :
               /\ text = YearText1(y1) => year = ExpectedYear(y1, y1)
               /\ \A y2 \in YearPhrases :
                      text = YearText2(y1, y2) => year = ExpectedYear(y1, y2)
        ELSE year = IF Contains(text, y_2024_goda) THEN PyInt(2024) ELSE HintOrCurrentYear

\* "за 2024 год. 2025 года. 29 февраля" with the hint 2024: the later phrase is of
\* the earlier pattern, so the year is 2025
C5_Witness ==
    /\ pc = "range"
    /\ text = YearText2(y_za_2024_god, y_2025_goda)
    /\ year_hint = PyInt(2024)
    /\ year = PyInt(2025)

\* the extractors have run up to and including the one whose pc value is `stage`
AfterStage ==
    [stage \in {"range", "list", "single", "transfer"} |->
        CASE stage = "range" -> {"list", "single", "transfer", "parsed", "done"}
          [] stage = "list" -> {"single", "transfer", "parsed", "done"}
          [] stage = "single" -> {"transfer", "parsed", "done"}
          [] OTHER -> {"parsed", "done"}]

\* the valid dates of month k of year y with a day in days
DatesOf(y, k, days) ==
    IF k \notin 1..12 THEN {}
    ELSE {Date(y, k, dd) : dd \in {x \in days : 1 <= x /\ x <= MonthLengths(y)[k]}}

(* C6: for a matched range "с D1 по D2 MONTH" with a recognized month the  *)
(* range extractor yields exactly the valid dates of that month with a day *)
(* from min(D1, D2) to max(D1, D2), the bounds in either order, and one    *)
(* range note; a matched range with an unrecognized month yields no date   *)
(* and no note.                                                            *)
C6_RangeDates ==
    (pc \in AfterStage["range"] /\ year.t = "int" /\ text \in RangeTexts) =>
        \A d1 \in {0, 1, 8, 31}, d2 \in {0, 1, 8, 31}, k \in {0, 1, 2, 4}, shape \in {1, 2} :
            text = RangePhrase(d1, d2, k, shape) =>
                IF k = 0
                THEN nonworking = {} /\ notes = <<>>
                ELSE /\ nonworking =
                            DatesOf(year.v, k, IF d1 <= d2 THEN d1..d2 ELSE d2..d1)
                     /\ notes = << Note(N_RANGE,
                                        Str(d1) \o <<45>> \o Str(d2) \o SP \o
                                        IF shape = 1 THEN MonthWord(k)
                                        ELSE Upper(MonthWord(k))) >>

\* "С  31 ПО 1 ФЕВРАЛЯ" in the leap year 2024: bounds in reverse order, capitals,
\* days 30 and 31 invalid
C6_Witness ==
    /\ pc = "list"
    /\ text = RangePhrase(31, 1, 2, 2)
    /\ year = PyInt(2024)
    /\ Cardinality(nonworking) = 29
    /\ Date(2024, 2, 29) \in nonworking
    /\ Len(notes) = 1

\* the extractor a note comes from, by its place in the running order
StageOf(kind) ==
    CASE kind = N_RANGE -> 1
      [] kind = N_LIST -> 2
      [] kind = N_SINGLE -> 3
      [] OTHER -> 4

\* how many extractors have run, or may have, when the control is at pc
StagesRun ==
    CASE pc \in {"start", "range"} -> 0
      [] pc = "list" -> 1
      [] pc = "single" -> 2
      [] pc = "transfer" -> 3
      [] OTHER -> 4

NoteKinds == [i \in 1..Len(notes) |-> notes[i].kind]

(* C9: the four extractors run in the order range, list, single date,      *)
(* transfer, and the notes are in this order: all range notes, then all    *)
(* list notes, then all single-date notes, then all transfer notes, and    *)
(* the notes of one extractor in the left-to-right order of their matches  *)
(* in the text.                                                            *)
C9_NotesOrder ==
    /\ Len(marks) = Len(notes)
    /\ \A i \in 1..Len(notes) : StageOf(notes[i].kind) <= StagesRun
    /\ \A i \in 1..Len(notes) : \A j \in (i + 1)..Len(notes) :
           /\ StageOf(notes[i].kind) <= StageOf(notes[j].kind)
           /\ notes[i].kind = notes[j].kind => marks[i] < marks[j]

\* a text with two ranges, an enumeration, a date next to a trigger word and a
\* transfer: two range notes, three list notes (the enumeration and the two dates
\* of the transfer), one single-date note and one transfer note
C9_Witness ==
    /\ pc = "parsed"
    /\ text \in OrderTexts
    /\ NoteKinds = <<N_RANGE, N_RANGE, N_LIST, N_LIST, N_LIST, N_SINGLE, N_TRANSFER>>

(* C10: every date extract_nonworking_dates returns has the year of        *)
(* ParseResult.year, the year _detect_year determined; so in the pipeline  *)
(* of parse_calendar_from_consultant, which builds the map for the same    *)
(* year, every extracted date is a key of the map labelled NON_WORKING.    *)
C10_DatesOfDetectedYear ==
    /\ \A d \in nonworking :
           /\ year.t = "int"
           /\ d.year = year.v
           /\ d.month \in 1..12
           /\ d.day \in 1..MonthLengths(d.year)[d.month]
    /\ pc = "done" =>
           \A d \in nonworking :
               /\ DayOfYear(d) \in DOMAIN day_map
               /\ day_map[DayOfYear(d)] = NON_WORKING

\* "2024 года 29 февраля" with the hint 2025: the date is Thursday 29 February
\* 2024, day 60 of the map of 2024
C10_Witness ==
    /\ pc = "done"
    /\ text = y_2024_goda \o SP \o SinglePhrase(29, 2)
    /\ year_hint = PyInt(2025)
    /\ year = PyInt(2024)
    /\ nonworking = {Date(2024, 2, 29)}
    /\ Len(day_map) = 366
    /\ day_map[60] = NON_WORKING

\* the contexts that put one of the trigger words within 40 characters of the date
TriggersBefore == {t_nerabochiy \o SP, t_nerabochiy \o Pad(31)}
TriggersAfter == {t_nonworking_day, Pad(34) \o t_vyhodnoy}

(* C3: a bare "DAY MONTH" mention is added only if one of the trigger      *)
(* words stands within 40 characters before its start or after its end: a  *)
(* text whose only date mention is "8 марта", with none of these words,    *)
(* yields no date and no note, and the same text with a trigger word       *)
(* inside the window yields exactly that date.                             *)
C3_BareDateNeedsTrigger ==
    (pc \in AfterStage["transfer"] /\ year.t = "int" /\ text \in SingleTexts) =>
        \A before \in ContextsBefore, after \in ContextsAfter, d \in {8, 31}, k \in {3, 4} :
            text = before \o SinglePhrase(d, k) \o after =>
                IF before \in TriggersBefore \/ after \in TriggersAfter
                THEN nonworking = DatesOf(year.v, k, {d})
                ELSE nonworking = {} /\ notes = <<>>

(* C4: a matched transfer phrase "перенос ... с A на B" yields only the    *)
(* destination: the date B is added when it is valid and the source date A *)
(* is not added.                                                           *)
C4_TransferOnlyDestination ==
    (pc \in AfterStage["transfer"] /\ year.t = "int" /\ text \in TransferTexts) =>
        \A stem \in {w_perenos, w_perenesti, t_perenositsya}, fk \in {0, 1}, td \in {8, 31},
           tk \in {1, 4} :
            text = TransferPhrase(stem, t_vyhodnogo_s, 5, fk, td, tk) =>
                /\ nonworking = DatesOf(year.v, tk, {td})
                /\ Date(year.v, 1, 5) \notin nonworking

(* C7: for a matched enumeration of day numbers followed by a recognized   *)
(* month, every listed day that forms a valid date and is not yet in the   *)
(* set is added, and a list note is emitted exactly when at least one date *)
(* was newly added: "1, 2 и 7 января" alone adds the three dates with one  *)
(* note, and adds nothing, with no note, when a range has covered them.    *)
C7_ListAddsEveryDay ==
    (pc \in AfterStage["list"] /\ year.t = "int" /\ text \in ListTexts) =>
        \A d2 \in {2, 31}, d3 \in {7, 9}, conj \in Conjunctions, k \in {1, 2},
           before \in {<<>>, RangePhrase(1, 8, 1, 1) \o Stop}, after \in {<<>>, t_nerabochie} :
            LET phrase == ListPhrase(1, d2, d3, conj, k)
                ms == finditer(LISTED_DAYS_RE, text)
                listed == DatesOf(year.v, k, {1, d2, d3})
                covered == IF before = <<>> THEN {} ELSE DatesOf(year.v, 1, 1..8)
            IN  (/\ text = before \o phrase \o after
                 /\ \E i \in 1..Len(ms) : /\ ms[i].start = Len(before)
                                          /\ ms[i].end = Len(before) + Len(phrase))
                => /\ listed \subseteq nonworking
                   /\ (\E i \in 1..Len(notes) : notes[i].kind = N_LIST)
                          <=> ~ (listed \subseteq covered)

(* C8: extract_nonworking_dates never fails on any input text: a match     *)
(* with an unrecognized month or an invalid day is skipped without raising *)
(* and the remaining matches are still processed.                          *)
C8_ExtractNeverRaises == pc # "raised_in_extract"

====
